---- MODULE Spec2Model ----
(***************************************************************************)
(* Model of computer_setup: the two-phase workstation provisioning         *)
(* workflow (cli.py), the shared Google-Sheets ledger (sheets.py), the     *)
(* state file (state.py), the DPAPI secret protector (security.py) and the *)
(* Windows actions (windows.py).                                           *)
(*                                                                         *)
(* Strings the code converts (lower(), strip(), split(), int(), format())  *)
(* are sequences of one-character strings, so the conversions are computed *)
(* and not assumed.                                                        *)
(***************************************************************************)
EXTENDS Integers, Sequences, FiniteSets, TLC

\* ------------------------------------------------------------------ bounds

\* Largest number of data rows the ledger may hold (caps the reservations).
MaxRows == 3
\* Largest number of initial-run invocations on the workstation.
MaxInitialRuns == 1
\* Largest number of post-login invocations on the workstation.
MaxPostLoginRuns == 2

\* At most this many calls of the state store in a row (StoreSpec).
MaxStoreCalls == 3

\* The workstation whose whole workflow is modelled.
Machines == {"m1"}

\* Another workstation provisioning against the same ledger.  Of its
\* workflow only the ledger call of initial-run is modelled: the rest
\* touches nothing but that workstation.
Peers == {"m2"}

\* ----------------------------------------------------------------- strings

DigitChars == <<"0", "1", "2", "3", "4", "5", "6", "7", "8", "9">>

IsDigit(c) == \E i \in 1..10 : DigitChars[i] = c

DigitVal(c) == (CHOOSE i \in 1..10 : DigitChars[i] = c) - 1

\* str.lower() on the alphabet the model uses.
LowerChar(c) ==
    CASE c = "A" -> "a"
      [] c = "B" -> "b"
      [] c = "C" -> "c"
      [] c = "T" -> "t"
      [] c = "W" -> "w"
      [] OTHER -> c

Lower(s) == [i \in 1..Len(s) |-> LowerChar(s[i])]

RECURSIVE LStrip(_)
LStrip(s) == IF s # <<>> /\ Head(s) = " " THEN LStrip(Tail(s)) ELSE s

RECURSIVE RStrip(_)
RStrip(s) ==
    IF s # <<>> /\ s[Len(s)] = " " THEN RStrip(SubSeq(s, 1, Len(s) - 1)) ELSE s

\* str.strip()
Strip(s) == RStrip(LStrip(s))

\* str.split(sep) for a one-character separator: the list of the pieces.
RECURSIVE SplitFrom(_, _, _, _)
SplitFrom(s, sep, cur, acc) ==
    IF s = <<>> THEN Append(acc, cur)
    ELSE IF Head(s) = sep THEN SplitFrom(Tail(s), sep, <<>>, Append(acc, cur))
    ELSE SplitFrom(Tail(s), sep, Append(cur, Head(s)), acc)

Split(s, sep) == SplitFrom(s, sep, <<>>, <<>>)

\* "".join(filter(str.isdigit, s))
RECURSIVE FilterDigits(_)
FilterDigits(s) ==
    IF s = <<>> THEN <<>>
    ELSE IF IsDigit(Head(s)) THEN <<Head(s)>> \o FilterDigits(Tail(s))
    ELSE FilterDigits(Tail(s))

\* int(s) of a string: defined on non-empty digit strings, ValueError otherwise.
IntOk(s) == s # <<>> /\ \A i \in 1..Len(s) : IsDigit(s[i])

RECURSIVE IntOf(_)
IntOf(s) ==
    IF s = <<>> THEN 0
    ELSE 10 * IntOf(SubSeq(s, 1, Len(s) - 1)) + DigitVal(s[Len(s)])

\* str(n) of a natural number.
RECURSIVE Digits(_)
Digits(n) ==
    IF n < 10 THEN <<DigitChars[n + 1]>>
    ELSE Digits(n \div 10) \o <<DigitChars[(n % 10) + 1]>>

\* format(n, "03d")
RECURSIVE PadLeft(_, _)
PadLeft(s, width) == IF Len(s) >= width THEN s ELSE PadLeft(<<"0">> \o s, width)

\* ------------------------------------------------------------------ config

\* The keys of AppConfig.domains: load_config stores them lower-cased.
ConfigDomains == {<<"a">>, <<"b">>}

\* DomainConfig.worksheet: the tab every configured domain shares.
Worksheet == <<"D">>

\* AppConfig.get_domain: KeyError unless name.lower() is a configured key.
GetDomainOk(name) == Lower(name) \in ConfigDomains

IsSlugChar(c) == c \in {"a", "b", "c", "t", "w"} \/ IsDigit(c)

\* re.sub(r"[^a-z0-9]+", "-", s): every maximal run of other characters
\* becomes one hyphen.
RECURSIVE SubRuns(_, _)
SubRuns(s, inRun) ==
    IF s = <<>> THEN <<>>
    ELSE IF IsSlugChar(Head(s)) THEN <<Head(s)>> \o SubRuns(Tail(s), FALSE)
    ELSE IF inRun THEN SubRuns(Tail(s), TRUE)
    ELSE <<"-">> \o SubRuns(Tail(s), TRUE)

RECURSIVE StripHyphens(_)
StripHyphens(s) ==
    IF s # <<>> /\ Head(s) = "-" THEN StripHyphens(Tail(s))
    ELSE IF s # <<>> /\ s[Len(s)] = "-" THEN StripHyphens(SubSeq(s, 1, Len(s) - 1))
    ELSE s

slugify_user(value) ==
    LET slug == StripHyphens(SubRuns(Lower(Strip(value)), FALSE))
    IN  IF slug = <<>> THEN <<"u", "s", "e", "r">> ELSE slug

\* DomainConfig.build_hostname with the default template "{seq:03d}-{user}".
build_hostname(seq, username) == PadLeft(Digits(seq), 3) \o <<"-">> \o username

\* ---------------------------------------------------------------- security

CipherChars == {"x", "y"}

EncChar(c) == IF c = "p" THEN "x" ELSE "y"

DecChar(c) == IF c = "x" THEN "p" ELSE "q"

\* protect_string that hands the secret back as it is.
ProtectStringPlain(m, secret) == secret

\* protect_string: DPAPI under the machine's key (CRYPTPROTECT_LOCAL_MACHINE),
\* Base64-encoded.  The token names the key and carries the ciphertext.
protect_string(m, secret) == <<m>> \o [i \in 1..Len(secret) |-> EncChar(secret[i])]

\* unprotect_string succeeds on a token made under this machine's key.
UnprotectOk(m, protected) ==
    /\ protected # <<>>
    /\ protected[1] = m
    /\ \A i \in 2..Len(protected) : protected[i] \in CipherChars

unprotect_string(m, protected) ==
    [i \in 1..(Len(protected) - 1) |-> DecChar(protected[i + 1])]

\* ------------------------------------------------------------------ ledger

HEADERS ==
    <<"Domain", "Sequence", "Hostname", "AssignedUser", "Status", "Timestamp", "Notes">>

\* A Sequence cell as get_all_records returns it: an int, a float (a cell
\* such as 3.5, kept here by its integer part n), or text that is no number.
IntCell(n) == [kind |-> "int", n |-> n, text |-> <<>>]

FloatCell(n) == [kind |-> "float", n |-> n, text |-> <<>>]

TextCell(t) == [kind |-> "text", n |-> 0, text |-> t]

\* int(row.get("Sequence", 0)): ValueError on text that is not a number; a
\* float is truncated to its integer part.
CellIntOk(cell) == cell.kind \in {"int", "float"} \/ IntOk(Strip(cell.text))

CellInt(cell) == IF cell.kind \in {"int", "float"} THEN cell.n ELSE IntOf(Strip(cell.text))

Max(a, b) == IF a >= b THEN a ELSE b

\* The row filter of reserve_name: str(row["Domain"]).strip().lower() == domain.lower()
SameDomain(row, domain) == Lower(Strip(row.Domain)) = Lower(domain)

\* MaxSeq with the domains compared as written, case and all.
RECURSIVE MaxSeqCaseSensitive(_, _)
MaxSeqCaseSensitive(records, domain) ==
    IF records = <<>> THEN 0
    ELSE LET row  == records[Len(records)]
             rest == MaxSeqCaseSensitive(SubSeq(records, 1, Len(records) - 1), domain)
         IN  IF row.Domain = domain /\ CellIntOk(row.Sequence)
             THEN Max(rest, CellInt(row.Sequence))
             ELSE rest

\* MaxSeq over the rows of every domain.
RECURSIVE MaxSeqAllDomains(_, _)
MaxSeqAllDomains(records, domain) ==
    IF records = <<>> THEN 0
    ELSE LET row  == records[Len(records)]
             rest == MaxSeqAllDomains(SubSeq(records, 1, Len(records) - 1), domain)
         IN  IF CellIntOk(row.Sequence)
             THEN Max(rest, CellInt(row.Sequence))
             ELSE rest

\* The loop of reserve_name over the records: the largest sequence of the
\* domain's rows, rows whose sequence is no number skipped.
RECURSIVE MaxSeq(_, _)
MaxSeq(records, domain) ==
    IF records = <<>> THEN 0
    ELSE LET row  == records[Len(records)]
             rest == MaxSeq(SubSeq(records, 1, Len(records) - 1), domain)
         IN  IF SameDomain(row, domain) /\ CellIntOk(row.Sequence)
             THEN Max(rest, CellInt(row.Sequence))
             ELSE rest

NextSeq(max_seq) == max_seq + 1

\* _ensure_header: row 1 as row_values(1) returns it is compared with HEADERS
\* and, when different, the cells A1:G1 are written; cells right of G stay.
EnsureHeader(head) ==
    IF head = HEADERS THEN head
    ELSE [i \in 1..Max(Len(head), Len(HEADERS)) |->
             IF i <= Len(HEADERS) THEN HEADERS[i] ELSE head[i]]

\* The A1 range the API reports for (and the client formats from) a sheet row.
RowRange(worksheet, row_number) ==
    worksheet \o <<"!", "A">> \o Digits(row_number) \o <<":", "G">> \o Digits(row_number)

\* The row number taken for the index of the record among the data rows,
\* which is one less than the sheet row.
ReservedRowNumberOfRecord(updated_range) ==
    IntOf(Tail(Split(Split(updated_range, "!")[2], ":")[1])) - 1

\* reserve_name: int(updated_range.split("!")[1].split(":")[0][1:])
ReservedRowNumber(updated_range) ==
    IntOf(Tail(Split(Split(updated_range, "!")[2], ":")[1]))

\* update_status: the digits of the start cell of the part after the last "!".
StatusRowDigits(row_range) ==
    LET parts == Split(row_range, "!")
    IN  FilterDigits(Split(parts[Len(parts)], ":")[1])

\* The row reserve_name appends.
NewRow(domain, next_seq, hostname, assigned_user, timestamp) ==
    [Domain |-> domain, Sequence |-> IntCell(next_seq), Hostname |-> hostname,
     AssignedUser |-> assigned_user, Status |-> "Pending",
     Timestamp |-> timestamp, Notes |-> ""]

\* A sheet row no one has written.
BlankRow ==
    [Domain |-> <<>>, Sequence |-> TextCell(<<>>), Hostname |-> <<>>,
     AssignedUser |-> <<>>, Status |-> "", Timestamp |-> <<>>, Notes |-> ""]

\* UpdateCells that writes the three values from column A instead of E.
UpdateCellsFromA(data, row_number, status, timestamp, notes) ==
    LET padded ==
            IF row_number - 1 > Len(data)
            THEN data \o [i \in 1..(row_number - 1 - Len(data)) |-> BlankRow]
            ELSE data
    IN  [i \in 1..Len(padded) |->
            IF i = row_number - 1
            THEN [padded[i] EXCEPT !.Domain = <<status>>,
                                   !.Sequence = TextCell(timestamp),
                                   !.Hostname = <<notes>>]
            ELSE padded[i]]

\* UpdateCells that takes the sheet row number for the number of the data
\* row, the header row not counted.
UpdateCellsNoHeaderOffset(data, row_number, status, timestamp, notes) ==
    LET padded ==
            IF row_number > Len(data)
            THEN data \o [i \in 1..(row_number - Len(data)) |-> BlankRow]
            ELSE data
    IN  [i \in 1..Len(padded) |->
            IF i = row_number
            THEN [padded[i] EXCEPT !.Status = status, !.Timestamp = timestamp,
                                   !.Notes = notes]
            ELSE padded[i]]

\* ws.update("E{n}:G{n}", [[status, timestamp, notes]]) on the data rows, for
\* n >= 2 (sheet row n is data row n - 1; row 1 is the header).  A row below
\* the last one is written all the same, the rows between staying blank.
UpdateCells(data, row_number, status, timestamp, notes) ==
    LET padded ==
            IF row_number - 1 > Len(data)
            THEN data \o [i \in 1..(row_number - 1 - Len(data)) |-> BlankRow]
            ELSE data
    IN  [i \in 1..Len(padded) |->
            IF i = row_number - 1
            THEN [padded[i] EXCEPT !.Status = status, !.Timestamp = timestamp,
                                   !.Notes = notes]
            ELSE padded[i]]

\* The same update when n = 1: it lands on the header row.
UpdateHeaderCells(head, status, notes) ==
    [i \in 1..Len(head) |->
        IF i = 5 THEN status ELSE IF i = 6 THEN "timestamp"
        ELSE IF i = 7 THEN notes ELSE head[i]]

\* datetime.now(tz=timezone.utc).isoformat()
Timestamp(now) == Digits(now)

\* ------------------------------------------------------------- state store

StateKeys ==
    {"domain", "assigned_user", "computer_name", "initial_user",
     "local_admin_user", "sheet_id", "worksheet", "sheet_range"}

SecretKeys == {"local_admin_password", "domain_username", "domain_password"}

HasKey(d, k) == k \in DOMAIN d

\* SetupState.create called with the hostname and the user slug exchanged.
SetupStateDocSwapped(domain, assigned_user, computer_name, initial_user, local_admin_user, sheet_range, secrets) ==
    [version |-> 1, domain |-> domain, assigned_user |-> computer_name,
     computer_name |-> assigned_user, initial_user |-> initial_user,
     local_admin_user |-> local_admin_user, sheet_id |-> "X",
     worksheet |-> Worksheet, sheet_range |-> sheet_range, secrets |-> secrets]

\* SetupState.create, then to_json (asdict): the document save_state writes.
SetupStateDoc(domain, assigned_user, computer_name, initial_user, local_admin_user, sheet_range, secrets) ==
    [version |-> 1, domain |-> domain, assigned_user |-> assigned_user,
     computer_name |-> computer_name, initial_user |-> initial_user,
     local_admin_user |-> local_admin_user, sheet_id |-> "X",
     worksheet |-> Worksheet, sheet_range |-> sheet_range, secrets |-> secrets]

\* SetupState.from_json: data[key] raises KeyError on a missing key; version
\* alone has a default; data.get("secrets") or {} makes a missing secrets
\* object fail at its first key.
FromJsonOk(data) ==
    /\ \A k \in StateKeys : HasKey(data, k)
    /\ HasKey(data, "secrets")
    /\ \A k \in SecretKeys : HasKey(data.secrets, k)

from_json(data) ==
    [version |-> IF HasKey(data, "version") THEN data.version ELSE 1,
     domain |-> data.domain, assigned_user |-> data.assigned_user,
     computer_name |-> data.computer_name, initial_user |-> data.initial_user,
     local_admin_user |-> data.local_admin_user, sheet_id |-> data.sheet_id,
     worksheet |-> data.worksheet, sheet_range |-> data.sheet_range,
     secrets |-> [k \in SecretKeys |-> data.secrets[k]]]

\* What the state location holds: nothing, a file opened for writing whose
\* document is not (completely) written, or a JSON document.
NoFile == [kind |-> "absent"]

PartialFile == [kind |-> "partial"]

JsonFile(data) == [kind |-> "json", data |-> data]

\* load_state: open() fails on a missing file, json.load on an incomplete
\* one, from_json on a document with a missing key.
LoadOk(file) == file.kind = "json" /\ FromJsonOk(file.data)

\* The exception load_state lets through: of open() on a missing file, of
\* json.load on an incomplete one, of from_json on a missing key, and
\* otherwise of a read that failed.
LoadError(file) ==
    IF file.kind = "absent" THEN "FileNotFoundError"
    ELSE IF file.kind = "partial" THEN "JSONDecodeError"
    ELSE IF ~FromJsonOk(file.data) THEN "KeyError"
    ELSE "OSError"

\* clear_state that unlinks without looking whether the file exists.
ClearStateOkUnguarded(file, unlinked) == unlinked /\ file.kind # "absent"

\* clear_state returns when path.exists() is false, or when unlink succeeded.
ClearStateOk(file, unlinked) == file.kind = "absent" \/ unlinked

\* clear_state that leaves the file where it is.
ClearedFileKept(file) == file

\* clear_state: unlink the file if it exists.
ClearedFile(file) == NoFile

\* main() that swallows the exception.
MainExitZero(raised) == 0

\* main(): 0 when the handler returns, sys.exit(1) when it raised.
MainExit(raised) == IF raised THEN 1 ELSE 0

\* ------------------------------------------------------------------- state

VARIABLES
    header,      \* row 1 of the worksheet
    rows,        \* the data rows of the worksheet, from sheet row 2 on
    clock,       \* the ledger's clock: the source of the timestamps
    reads,       \* per data row: the maximum its reserve_name call had read
    pc,          \* per machine: the next step of the running command, or "none"
    args,        \* per machine: the arguments of the running (or last) command
    loc,         \* per machine: the local variables of the running handler
    stateFile,   \* per machine: what the state location holds
    mach,        \* per machine: hostname, accounts, Winlogon and RunOnce values
    exitStatus,  \* per machine: exit status of the last command, -1 while there is none
    error,       \* per machine: the error the last command reported
    executed,    \* per machine: the steps the running (or last) command executed
    failedAt,    \* per machine: the step that raised, or "none"
    effects,     \* per machine: the external effects of the running (or last) command
    hist,        \* per machine: history of the workflow across commands
    overlapped,  \* some reserve_name call began while another was in progress
    peer         \* per peer: where its reserve_name call is, and its locals

vars ==
    <<header, rows, clock, reads, pc, args, loc, stateFile, mach, exitStatus, error,
      executed, failedAt, effects, hist, overlapped, peer>>

ledgerVars == <<header, rows, clock, reads>>

NoArgs ==
    [cmd |-> "none", elevated |-> FALSE, domain |-> <<>>, assigned_user |-> <<>>,
     initial_user |-> <<>>, local_admin |-> <<>>, no_restart |-> FALSE]

NoLoc ==
    [max_seq |-> 0, seq |-> 0, hostname |-> <<>>, sheet_range |-> <<>>,
     local_admin_password |-> <<>>, domain_username |-> <<>>,
     domain_password |-> <<>>, secrets |-> <<>>, state |-> <<>>]

FreshMachine ==
    [hostname |-> <<"W">>, adminPassword |-> <<>>, removed |-> {},
     AutoAdminLogon |-> "unset", DefaultUserName |-> <<>>,
     DefaultPassword |-> <<>>, RunOnce |-> FALSE, domain |-> <<>>,
     loggedOff |-> FALSE, restartIssued |-> FALSE,
     joinCredential |-> <<>>]

NoHist ==
    [initialRuns |-> 0,        \* initial-run invocations so far
     postLoginRuns |-> 0,      \* post-login invocations so far
     joins |-> 0,              \* successful domain joins since the last initial-run
     cleared |-> FALSE,        \* a post-login completed with --no-restart and
                               \* nothing has written the state location since
     afterClear |-> FALSE,     \* the running (or last) command began in that state
     appended |-> {}]          \* the data rows this workstation's reserve_name appended

NoPeer ==
    [pc |-> "none", domain |-> <<>>, assigned_user |-> <<>>, max_seq |-> 0,
     sheet_range |-> <<>>]

\* The inputs of the commands.
DomainArgs == {<<"a">>, <<"A">>, <<"b">>, <<"c">>}

AssignedUsers == {<<"T", " ", "w">>}

InitialUsers == {<<"t">>, <<"W">>}

LocalAdmins == {<<"w">>}

PeerDomains == {<<"a">>, <<"b">>}

AdminPasswords == {<<"p">>}

DomainPasswords == {<<"q">>}

DomainUsers == {<<"a", "\\", "t">>}

Init ==
    /\ header = HEADERS
    /\ rows = <<>>
    /\ clock = 0
    /\ reads = <<>>
    /\ pc = [m \in Machines |-> "none"]
    /\ args = [m \in Machines |-> NoArgs]
    /\ loc = [m \in Machines |-> NoLoc]
    /\ stateFile = [m \in Machines |-> NoFile]
    /\ mach = [m \in Machines |-> FreshMachine]
    /\ exitStatus = [m \in Machines |-> -1]
    /\ error = [m \in Machines |-> "none"]
    /\ executed = [m \in Machines |-> <<>>]
    /\ failedAt = [m \in Machines |-> "none"]
    /\ effects = [m \in Machines |-> {}]
    /\ hist = [m \in Machines |-> NoHist]
    /\ overlapped = FALSE
    /\ peer = [p \in Peers |-> NoPeer]

\* ----------------------------------------------------------- step plumbing

\* The step `step` of machine m's command returned; `next` is the step after it.
Return(m, step, next) ==
    /\ pc' = [pc EXCEPT ![m] = next]
    /\ executed' = [executed EXCEPT ![m] = Append(@, step)]
    /\ UNCHANGED <<exitStatus, error, failedAt>>

\* The step raised: the exception leaves the handler and main() reports it.
Raise(m, step, kind) ==
    /\ pc' = [pc EXCEPT ![m] = "none"]
    /\ executed' = [executed EXCEPT ![m] = Append(@, step)]
    /\ failedAt' = [failedAt EXCEPT ![m] = step]
    /\ error' = [error EXCEPT ![m] = kind]
    /\ exitStatus' = [exitStatus EXCEPT ![m] = MainExit(TRUE)]
    /\ loc' = [loc EXCEPT ![m] = NoLoc]

\* The handler returned: the command ends.
Finish(m, step) ==
    /\ pc' = [pc EXCEPT ![m] = "none"]
    /\ executed' = [executed EXCEPT ![m] = Append(@, step)]
    /\ exitStatus' = [exitStatus EXCEPT ![m] = MainExit(FALSE)]
    /\ loc' = [loc EXCEPT ![m] = NoLoc]
    /\ UNCHANGED <<error, failedAt>>

Effect(m, e) == effects' = [effects EXCEPT ![m] = @ \cup {e}]

\* A command begins: a fresh process, nothing executed yet.
Begin(m, a, first) ==
    /\ pc' = [pc EXCEPT ![m] = first]
    /\ args' = [args EXCEPT ![m] = a]
    /\ loc' = [loc EXCEPT ![m] = NoLoc]
    /\ executed' = [executed EXCEPT ![m] = <<>>]
    /\ failedAt' = [failedAt EXCEPT ![m] = "none"]
    /\ error' = [error EXCEPT ![m] = "none"]
    /\ exitStatus' = [exitStatus EXCEPT ![m] = -1]
    /\ effects' = [effects EXCEPT ![m] = {}]

\* The steps of _initial_run during which the reservation is not yet appended.
BeforeAppend ==
    {"ir_require_elevated", "ir_resolve_config", "ir_get_domain",
     "ir_credentials_path", "ir_sheets_client", "ir_reserve_open",
     "ir_reserve_read", "ir_reserve_append"}

\* The steps of reserve_name after it has begun.
InReserve == {"ir_reserve_read", "ir_reserve_append"}

\* The reservations under way: each may still append a row.
Reserving ==
    Cardinality({m \in Machines : pc[m] \in BeforeAppend})
        + Cardinality({p \in Peers : peer[p].pc \in {"open", "read", "append"}})

\* Some other client is inside reserve_name.
OtherInReserve(c) ==
    \/ \E m \in Machines \ {c} : pc[m] \in InReserve
    \/ \E p \in Peers \ {c} : peer[p].pc \in {"read", "append"}

\* ------------------------------------------------------ phase 1: initial-run

\* `initial-run` is invoked on machine m.
InitialRunStart(m) ==
    /\ pc[m] = "none"
    /\ hist[m].initialRuns < MaxInitialRuns
    /\ Len(rows) + Reserving < MaxRows
    /\ \E elevated \in BOOLEAN, d \in DomainArgs, u \in AssignedUsers,
          iu \in InitialUsers, la \in LocalAdmins :
          Begin(m, [cmd |-> "initial-run", elevated |-> elevated, domain |-> d,
                    assigned_user |-> u, initial_user |-> iu, local_admin |-> la,
                    no_restart |-> FALSE],
                "ir_require_elevated")
    /\ hist' = [hist EXCEPT ![m].joins = 0, ![m].initialRuns = @ + 1,
                            ![m].afterClear = FALSE]
    /\ UNCHANGED <<ledgerVars, stateFile, mach, overlapped, peer>>

\* require_elevated that lets every caller through.
RequireElevatedSkipped(elevated) == TRUE

\* require_elevated returns when is_elevated() is true and raises otherwise.
RequireElevatedOk(elevated) == elevated

\* windows.require_elevated()
IrRequireElevated(m) ==
    /\ pc[m] = "ir_require_elevated"
    /\ IF RequireElevatedOk(args[m].elevated)
       THEN Return(m, "require_elevated", "ir_resolve_config") /\ UNCHANGED loc
       ELSE Raise(m, "require_elevated", "PermissionError")
    /\ UNCHANGED <<ledgerVars, args, stateFile, mach, effects, hist, overlapped, peer>>

\* _resolve_config(config_path): the file may be missing or malformed.
IrResolveConfig(m) ==
    /\ pc[m] = "ir_resolve_config"
    /\ \E ok \in BOOLEAN :
          IF ok
          THEN Return(m, "resolve_config", "ir_get_domain") /\ UNCHANGED loc
          ELSE Raise(m, "resolve_config", "FileNotFoundError")
    /\ UNCHANGED <<ledgerVars, args, stateFile, mach, effects, hist, overlapped, peer>>

\* config.get_domain(args.domain)
IrGetDomain(m) ==
    /\ pc[m] = "ir_get_domain"
    /\ IF GetDomainOk(args[m].domain)
       THEN Return(m, "get_domain", "ir_credentials_path") /\ UNCHANGED loc
       ELSE Raise(m, "get_domain", "KeyError")
    /\ UNCHANGED <<ledgerVars, args, stateFile, mach, effects, hist, overlapped, peer>>

\* _resolve_credentials_path(args.google_credentials, config)
IrCredentialsPath(m) ==
    /\ pc[m] = "ir_credentials_path"
    /\ \E ok \in BOOLEAN :
          IF ok
          THEN Return(m, "resolve_credentials_path", "ir_sheets_client") /\ UNCHANGED loc
          ELSE Raise(m, "resolve_credentials_path", "ValueError")
    /\ UNCHANGED <<ledgerVars, args, stateFile, mach, effects, hist, overlapped, peer>>

\* SheetsClient(google_creds)
IrSheetsClient(m) ==
    /\ pc[m] = "ir_sheets_client"
    /\ \E ok \in BOOLEAN :
          IF ok
          THEN Return(m, "SheetsClient", "ir_reserve_open") /\ UNCHANGED loc
          ELSE Raise(m, "SheetsClient", "FileNotFoundError")
    /\ UNCHANGED <<ledgerVars, args, stateFile, mach, effects, hist, overlapped, peer>>

\* reserve_name, first call: self._worksheet(sheet_id, worksheet), which
\* opens the tab and rewrites row 1 unless it holds HEADERS.
IrReserveOpen(m) ==
    /\ pc[m] = "ir_reserve_open"
    /\ \E ok \in BOOLEAN :
          IF ok
          THEN /\ header' = EnsureHeader(header)
               /\ overlapped' =
                     (overlapped \/ OtherInReserve(m))
               /\ Return(m, "reserve_name.open", "ir_reserve_read")
               /\ UNCHANGED loc
          ELSE /\ Raise(m, "reserve_name.open", "APIError")
               /\ UNCHANGED <<header, overlapped>>
    /\ UNCHANGED <<rows, clock, reads, args, stateFile, mach, effects, hist, peer>>

\* reserve_name, second call: ws.get_all_records() and the loop over them.
IrReserveRead(m) ==
    /\ pc[m] = "ir_reserve_read"
    /\ \E ok \in BOOLEAN :
          IF ok
          THEN /\ loc' = [loc EXCEPT ![m].max_seq = MaxSeq(rows, args[m].domain)]
               /\ Return(m, "reserve_name.read", "ir_reserve_append")
          ELSE Raise(m, "reserve_name.read", "APIError")
    /\ UNCHANGED <<ledgerVars, args, stateFile, mach, effects, hist, overlapped, peer>>

\* reserve_name, third call: ws.append_row(row), and the return value.
IrReserveAppend(m) ==
    /\ pc[m] = "ir_reserve_append"
    /\ \E ok \in BOOLEAN :
          IF ok
          THEN LET next_seq == NextSeq(loc[m].max_seq)
                   slug == slugify_user(args[m].assigned_user)
                   hostname == build_hostname(next_seq, slug)
                   updated_range == RowRange(Worksheet, Len(rows) + 2)
                   row_number == ReservedRowNumber(updated_range)
               IN  /\ rows' = Append(rows,
                                NewRow(args[m].domain, next_seq, hostname, slug,
                                       Timestamp(clock)))
                   /\ reads' = Append(reads, loc[m].max_seq)
                   /\ clock' = clock + 1
                   /\ loc' = [loc EXCEPT ![m].seq = next_seq,
                                         ![m].hostname = hostname,
                                         ![m].sheet_range = RowRange(Worksheet, row_number)]
                   /\ hist' = [hist EXCEPT ![m].appended = @ \cup {Len(rows) + 1}]
                   /\ Effect(m, "ledger_append")
                   /\ Return(m, "reserve_name.append", "ir_prompt")
          ELSE /\ Raise(m, "reserve_name.append", "APIError")
               /\ UNCHANGED <<rows, clock, reads, effects, hist>>
    /\ UNCHANGED <<header, args, stateFile, mach, overlapped, peer>>

\* The three prompts: _prompt_password returns only a non-empty (and, for
\* the administrator, confirmed) password; they cannot fail.
IrPrompt(m) ==
    /\ pc[m] = "ir_prompt"
    /\ \E lp \in AdminPasswords, du \in DomainUsers, dp \in DomainPasswords :
          loc' = [loc EXCEPT ![m].local_admin_password = lp,
                             ![m].domain_username = Strip(du),
                             ![m].domain_password = dp]
    /\ Return(m, "prompt", "ir_rename_computer")
    /\ UNCHANGED <<ledgerVars, args, stateFile, mach, effects, hist, overlapped, peer>>

\* windows.rename_computer(hostname)
IrRenameComputer(m) ==
    /\ pc[m] = "ir_rename_computer"
    /\ \E ok \in BOOLEAN :
          IF ok
          THEN /\ mach' = [mach EXCEPT ![m].hostname = loc[m].hostname]
               /\ Effect(m, "rename_computer")
               /\ Return(m, "rename_computer", "ir_create_local_admin")
               /\ UNCHANGED loc
          ELSE /\ Raise(m, "rename_computer", "CommandError")
               /\ UNCHANGED <<mach, effects>>
    /\ UNCHANGED <<ledgerVars, args, stateFile, hist, overlapped, peer>>

\* windows.create_or_update_local_admin(args.local_admin, local_admin_password)
IrCreateLocalAdmin(m) ==
    /\ pc[m] = "ir_create_local_admin"
    /\ \E ok \in BOOLEAN :
          IF ok
          THEN /\ mach' = [mach EXCEPT
                              ![m].adminPassword = loc[m].local_admin_password,
                              ![m].removed = @ \ {args[m].local_admin}]
               /\ Effect(m, "create_or_update_local_admin")
               /\ Return(m, "create_or_update_local_admin", "ir_configure_autologon")
               /\ UNCHANGED loc
          ELSE /\ Raise(m, "create_or_update_local_admin", "CommandError")
               /\ UNCHANGED <<mach, effects>>
    /\ UNCHANGED <<ledgerVars, args, stateFile, hist, overlapped, peer>>

\* windows.configure_autologon(args.local_admin, local_admin_password): the
\* Winlogon values, the password among them in plain text.
IrConfigureAutologon(m) ==
    /\ pc[m] = "ir_configure_autologon"
    /\ \E ok \in BOOLEAN :
          IF ok
          THEN /\ mach' = [mach EXCEPT
                              ![m].AutoAdminLogon = "1",
                              ![m].DefaultUserName = args[m].local_admin,
                              ![m].DefaultPassword = loc[m].local_admin_password]
               /\ Effect(m, "configure_autologon")
               /\ Return(m, "configure_autologon", "ir_protect")
               /\ UNCHANGED loc
          ELSE /\ Raise(m, "configure_autologon", "CommandError")
               /\ UNCHANGED <<mach, effects>>
    /\ UNCHANGED <<ledgerVars, args, stateFile, hist, overlapped, peer>>

\* Secrets(protect_string(local_admin_password), domain_username,
\*         protect_string(domain_password))
IrProtect(m) ==
    /\ pc[m] = "ir_protect"
    /\ \E ok \in BOOLEAN :
          IF ok
          THEN /\ loc' = [loc EXCEPT ![m].secrets =
                    [local_admin_password |->
                         protect_string(m, loc[m].local_admin_password),
                     domain_username |-> loc[m].domain_username,
                     domain_password |-> protect_string(m, loc[m].domain_password)]]
               /\ Return(m, "protect_string", "ir_save_open")
          ELSE Raise(m, "protect_string", "OSError")
    /\ UNCHANGED <<ledgerVars, args, stateFile, mach, effects, hist, overlapped, peer>>

\* save_state, first part: STATE_DIR.mkdir and path.open("w"), which creates
\* the file or truncates the one there.
IrSaveOpen(m) ==
    /\ pc[m] = "ir_save_open"
    /\ \E ok \in BOOLEAN :
          IF ok
          THEN /\ stateFile' = [stateFile EXCEPT ![m] = PartialFile]
               /\ hist' = [hist EXCEPT ![m].cleared = FALSE]
               /\ Effect(m, "save_state")
               /\ Return(m, "save_state.open", "ir_save_dump")
               /\ UNCHANGED loc
          ELSE /\ Raise(m, "save_state.open", "OSError")
               /\ UNCHANGED <<stateFile, hist, effects>>
    /\ UNCHANGED <<ledgerVars, args, mach, overlapped, peer>>

\* save_state, second part: json.dump(payload, fp) and the close.
IrSaveDump(m) ==
    /\ pc[m] = "ir_save_dump"
    /\ \E ok \in BOOLEAN :
          IF ok
          THEN /\ stateFile' = [stateFile EXCEPT ![m] =
                    JsonFile(SetupStateDoc(args[m].domain,
                                           slugify_user(args[m].assigned_user),
                                           loc[m].hostname, args[m].initial_user,
                                           args[m].local_admin, loc[m].sheet_range,
                                           loc[m].secrets))]
               /\ Return(m, "save_state.dump", "ir_register_run_once")
               /\ UNCHANGED loc
          ELSE /\ Raise(m, "save_state.dump", "OSError")
               /\ UNCHANGED stateFile
    /\ UNCHANGED <<ledgerVars, args, mach, effects, hist, overlapped, peer>>

\* windows.register_run_once("ComputerSetupPostLogin", run_once_command)
IrRegisterRunOnce(m) ==
    /\ pc[m] = "ir_register_run_once"
    /\ \E ok \in BOOLEAN :
          IF ok
          THEN /\ mach' = [mach EXCEPT ![m].RunOnce = TRUE]
               /\ Effect(m, "register_run_once")
               /\ Return(m, "register_run_once", "ir_logoff")
               /\ UNCHANGED loc
          ELSE /\ Raise(m, "register_run_once", "CommandError")
               /\ UNCHANGED <<mach, effects>>
    /\ UNCHANGED <<ledgerVars, args, stateFile, hist, overlapped, peer>>

\* windows.logoff_current_user(), the last statement of _initial_run.
IrLogoff(m) ==
    /\ pc[m] = "ir_logoff"
    /\ \E ok \in BOOLEAN :
          IF ok
          THEN /\ mach' = [mach EXCEPT ![m].loggedOff = TRUE]
               /\ Effect(m, "logoff_current_user")
               /\ Finish(m, "logoff_current_user")
          ELSE /\ Raise(m, "logoff_current_user", "CommandError")
               /\ UNCHANGED <<mach, effects>>
    /\ UNCHANGED <<ledgerVars, args, stateFile, hist, overlapped, peer>>

\* ------------------------------------------------------- phase 2: post-login

PostLoginArgs(elevated, no_restart) ==
    [cmd |-> "post-login", elevated |-> elevated, domain |-> <<>>,
     assigned_user |-> <<>>, initial_user |-> <<>>, local_admin |-> <<>>,
     no_restart |-> no_restart]

\* The automatic logon after the logoff runs the RunOnce command, which
\* Windows deletes as it runs it: post-login with --state and --config.
PostLoginContinuation(m) ==
    /\ pc[m] = "none"
    /\ mach[m].RunOnce /\ mach[m].loggedOff /\ mach[m].AutoAdminLogon = "1"
    /\ hist[m].postLoginRuns < MaxPostLoginRuns
    /\ \E elevated \in BOOLEAN :
          Begin(m, PostLoginArgs(elevated, FALSE), "pl_require_elevated")
    /\ mach' = [mach EXCEPT ![m].RunOnce = FALSE, ![m].loggedOff = FALSE]
    /\ hist' = [hist EXCEPT ![m].postLoginRuns = @ + 1,
                            ![m].afterClear = hist[m].cleared]
    /\ UNCHANGED <<ledgerVars, stateFile, overlapped, peer>>

\* An operator invokes `post-login` by hand.
PostLoginManual(m) ==
    /\ pc[m] = "none"
    /\ hist[m].postLoginRuns < MaxPostLoginRuns
    /\ \E elevated \in BOOLEAN, no_restart \in BOOLEAN :
          Begin(m, PostLoginArgs(elevated, no_restart), "pl_require_elevated")
    /\ hist' = [hist EXCEPT ![m].postLoginRuns = @ + 1,
                            ![m].afterClear = hist[m].cleared]
    /\ UNCHANGED <<ledgerVars, stateFile, mach, overlapped, peer>>

\* windows.require_elevated()
PlRequireElevated(m) ==
    /\ pc[m] = "pl_require_elevated"
    /\ IF RequireElevatedOk(args[m].elevated)
       THEN Return(m, "require_elevated", "pl_load_state") /\ UNCHANGED loc
       ELSE Raise(m, "require_elevated", "PermissionError")
    /\ UNCHANGED <<ledgerVars, args, stateFile, mach, effects, hist, overlapped, peer>>

\* state = load_state(state_path)
PlLoadState(m) ==
    /\ pc[m] = "pl_load_state"
    /\ \E ok \in BOOLEAN :
          IF ok /\ LoadOk(stateFile[m])
          THEN /\ loc' = [loc EXCEPT ![m].state = from_json(stateFile[m].data)]
               /\ Return(m, "load_state", "pl_resolve_config")
          ELSE Raise(m, "load_state", LoadError(stateFile[m]))
    /\ UNCHANGED <<ledgerVars, args, stateFile, mach, effects, hist, overlapped, peer>>

\* config = _resolve_config(config_path)
PlResolveConfig(m) ==
    /\ pc[m] = "pl_resolve_config"
    /\ \E ok \in BOOLEAN :
          IF ok
          THEN Return(m, "resolve_config", "pl_get_domain") /\ UNCHANGED loc
          ELSE Raise(m, "resolve_config", "FileNotFoundError")
    /\ UNCHANGED <<ledgerVars, args, stateFile, mach, effects, hist, overlapped, peer>>

\* domain_config = config.get_domain(state.domain)
PlGetDomain(m) ==
    /\ pc[m] = "pl_get_domain"
    /\ IF GetDomainOk(loc[m].state.domain)
       THEN Return(m, "get_domain", "pl_credentials_path") /\ UNCHANGED loc
       ELSE Raise(m, "get_domain", "KeyError")
    /\ UNCHANGED <<ledgerVars, args, stateFile, mach, effects, hist, overlapped, peer>>

\* _resolve_credentials_path(args.google_credentials, config)
PlCredentialsPath(m) ==
    /\ pc[m] = "pl_credentials_path"
    /\ \E ok \in BOOLEAN :
          IF ok
          THEN Return(m, "resolve_credentials_path", "pl_sheets_client") /\ UNCHANGED loc
          ELSE Raise(m, "resolve_credentials_path", "ValueError")
    /\ UNCHANGED <<ledgerVars, args, stateFile, mach, effects, hist, overlapped, peer>>

\* sheets = SheetsClient(google_creds)
PlSheetsClient(m) ==
    /\ pc[m] = "pl_sheets_client"
    /\ \E ok \in BOOLEAN :
          IF ok
          THEN Return(m, "SheetsClient", "pl_unprotect") /\ UNCHANGED loc
          ELSE Raise(m, "SheetsClient", "FileNotFoundError")
    /\ UNCHANGED <<ledgerVars, args, stateFile, mach, effects, hist, overlapped, peer>>

\* domain_password = unprotect_string(state.secrets.domain_password)
PlUnprotect(m) ==
    /\ pc[m] = "pl_unprotect"
    /\ \E ok \in BOOLEAN :
          IF ok /\ UnprotectOk(m, loc[m].state.secrets.domain_password)
          THEN /\ loc' = [loc EXCEPT ![m].domain_password =
                            unprotect_string(m, loc[m].state.secrets.domain_password)]
               /\ Return(m, "unprotect_string", "pl_clear_autologon")
          ELSE Raise(m, "unprotect_string", "OSError")
    /\ UNCHANGED <<ledgerVars, args, stateFile, mach, effects, hist, overlapped, peer>>

\* windows.clear_autologon(): AutoAdminLogon and ForceAutoLogon set to "0",
\* DefaultPassword and DefaultDomainName deleted.
PlClearAutologon(m) ==
    /\ pc[m] = "pl_clear_autologon"
    /\ \E ok \in BOOLEAN :
          IF ok
          THEN /\ mach' = [mach EXCEPT ![m].AutoAdminLogon = "0",
                                       ![m].DefaultPassword = <<>>]
               /\ Effect(m, "clear_autologon")
               /\ Return(m, "clear_autologon", "pl_remove_local_user")
               /\ UNCHANGED loc
          ELSE /\ Raise(m, "clear_autologon", "CommandError")
               /\ UNCHANGED <<mach, effects>>
    /\ UNCHANGED <<ledgerVars, args, stateFile, hist, overlapped, peer>>

\* The guard of the account removal with the names compared as written.
RemovesInitialUserCaseSensitive(state) == state.initial_user # state.local_admin_user

\* The guard of the account removal: the two names differ, case ignored.
RemovesInitialUser(state) == Lower(state.initial_user) # Lower(state.local_admin_user)

\* if state.initial_user.lower() != state.local_admin_user.lower():
\*     windows.remove_local_user(state.initial_user)
PlRemoveLocalUser(m) ==
    /\ pc[m] = "pl_remove_local_user"
    /\ IF RemovesInitialUser(loc[m].state)
       THEN \E ok \in BOOLEAN :
               IF ok
               THEN /\ mach' = [mach EXCEPT ![m].removed =
                                   @ \cup {loc[m].state.initial_user}]
                    /\ Effect(m, "remove_local_user")
                    /\ Return(m, "remove_local_user", "pl_join_domain")
                    /\ UNCHANGED loc
               ELSE /\ Raise(m, "remove_local_user", "CommandError")
                    /\ UNCHANGED <<mach, effects>>
       ELSE /\ pc' = [pc EXCEPT ![m] = "pl_join_domain"]
            /\ UNCHANGED <<executed, exitStatus, error, failedAt, loc, mach, effects>>
    /\ UNCHANGED <<ledgerVars, args, stateFile, hist, overlapped, peer>>

\* join_domain that adds -Restart whatever it is told.
JoinRestartsAlways(restart) == TRUE

\* join_domain adds -Restart to Add-Computer only when restart is true.
JoinRestarts(restart) == restart

\* windows.join_domain(state.domain, username, domain_password, restart=False)
PlJoinDomain(m) ==
    /\ pc[m] = "pl_join_domain"
    /\ \E ok \in BOOLEAN :
          IF ok
          THEN /\ mach' = [mach EXCEPT ![m].domain = loc[m].state.domain,
                                       ![m].joinCredential =
                                           <<loc[m].state.secrets.domain_username,
                                             loc[m].domain_password>>,
                                       ![m].restartIssued = @ \/ JoinRestarts(FALSE)]
               /\ hist' = [hist EXCEPT ![m].joins = @ + 1]
               /\ effects' = [effects EXCEPT ![m] =
                     @ \cup {"join_domain"}
                       \cup (IF JoinRestarts(FALSE) THEN {"restart_computer"} ELSE {})]
               /\ Return(m, "join_domain", "pl_update_open")
               /\ UNCHANGED loc
          ELSE /\ Raise(m, "join_domain", "CommandError")
               /\ UNCHANGED <<mach, hist, effects>>
    /\ UNCHANGED <<ledgerVars, args, stateFile, overlapped, peer>>

\* update_status, first call: self._worksheet(sheet_id, worksheet).
PlUpdateOpen(m) ==
    /\ pc[m] = "pl_update_open"
    /\ \E ok \in BOOLEAN :
          IF ok
          THEN /\ header' = EnsureHeader(header)
               /\ Return(m, "update_status.open", "pl_update_status")
               /\ UNCHANGED loc
          ELSE /\ Raise(m, "update_status.open", "APIError")
               /\ UNCHANGED header
    /\ UNCHANGED <<rows, clock, reads, args, stateFile, mach, effects, hist,
                   overlapped, peer>>

\* update_status, the rest: the row number out of row_range (int() raises
\* ValueError when the start cell has no digit), then ws.update on E:G of
\* that row, which the API refuses for row 0.
PlUpdateStatus(m) ==
    /\ pc[m] = "pl_update_status"
    /\ LET digits == StatusRowDigits(loc[m].state.sheet_range)
           row_number == IntOf(digits)
       IN  \E ok \in BOOLEAN :
              IF ok /\ IntOk(digits) /\ row_number >= 1
              THEN /\ IF row_number = 1
                      THEN /\ header' = UpdateHeaderCells(header, "Joined",
                                            "Provisioned via computer-setup")
                           /\ UNCHANGED rows
                      ELSE /\ rows' = UpdateCells(rows, row_number, "Joined",
                                         Timestamp(clock),
                                         "Provisioned via computer-setup")
                           /\ UNCHANGED header
                   /\ clock' = clock + 1
                   /\ reads' = reads \o [i \in 1..(Len(rows') - Len(reads)) |-> 0]
                   /\ Effect(m, "update_status")
                   /\ Return(m, "update_status", "pl_clear_state")
                   /\ UNCHANGED loc
              ELSE /\ Raise(m, "update_status", IF IntOk(digits) THEN "APIError" ELSE "ValueError")
                   /\ UNCHANGED <<ledgerVars, effects>>
    /\ UNCHANGED <<args, stateFile, mach, hist, overlapped, peer>>

\* clear_state(state_path)
PlClearState(m) ==
    /\ pc[m] = "pl_clear_state"
    /\ \E ok \in BOOLEAN :
          IF ClearStateOk(stateFile[m], ok)
          THEN /\ stateFile' = [stateFile EXCEPT ![m] = ClearedFile(@)]
               /\ Effect(m, "clear_state")
               /\ Return(m, "clear_state", "pl_restart")
               /\ UNCHANGED loc
          ELSE /\ Raise(m, "clear_state", "OSError")
               /\ UNCHANGED <<stateFile, effects>>
    /\ UNCHANGED <<ledgerVars, args, mach, hist, overlapped, peer>>

\* if not args.no_restart: windows.restart_computer(delay_seconds=10)
PlRestart(m) ==
    /\ pc[m] = "pl_restart"
    /\ IF args[m].no_restart
       THEN /\ pc' = [pc EXCEPT ![m] = "none"]
            /\ exitStatus' = [exitStatus EXCEPT ![m] = MainExit(FALSE)]
            /\ loc' = [loc EXCEPT ![m] = NoLoc]
            /\ hist' = [hist EXCEPT ![m].cleared = TRUE]
            /\ UNCHANGED <<executed, error, failedAt, mach, effects>>
       ELSE \E ok \in BOOLEAN :
               IF ok
               THEN /\ mach' = [mach EXCEPT ![m].restartIssued = TRUE]
                    /\ Effect(m, "restart_computer")
                    /\ Finish(m, "restart_computer")
                    /\ UNCHANGED hist
               ELSE /\ Raise(m, "restart_computer", "CommandError")
                    /\ UNCHANGED <<mach, effects, hist>>
    /\ UNCHANGED <<ledgerVars, args, stateFile, overlapped, peer>>

\* ------------------------------------------------- the peer's reserve_name

machineVars ==
    <<pc, args, loc, stateFile, mach, exitStatus, error, executed, failedAt,
      effects, hist>>

\* The peer's initial-run reaches sheets.reserve_name(domain=args.domain, ...).
PeerReserveStart(p) ==
    /\ peer[p].pc = "none"
    /\ Len(rows) + Reserving < MaxRows
    /\ \E d \in PeerDomains, u \in AssignedUsers :
          peer' = [peer EXCEPT ![p] =
                      [pc |-> "open", domain |-> d, assigned_user |-> u, max_seq |-> 0,
                       sheet_range |-> <<>>]]
    /\ UNCHANGED <<ledgerVars, machineVars, overlapped>>

\* reserve_name in the peer: self._worksheet(sheet_id, worksheet)
PeerReserveOpen(p) ==
    /\ peer[p].pc = "open"
    /\ \E ok \in BOOLEAN :
          IF ok
          THEN /\ header' = EnsureHeader(header)
               /\ overlapped' = (overlapped \/ OtherInReserve(p))
               /\ peer' = [peer EXCEPT ![p].pc = "read"]
          ELSE /\ peer' = [peer EXCEPT ![p] = NoPeer]
               /\ UNCHANGED <<header, overlapped>>
    /\ UNCHANGED <<rows, clock, reads, machineVars>>

\* reserve_name in the peer: ws.get_all_records() and the loop over them.
PeerReserveRead(p) ==
    /\ peer[p].pc = "read"
    /\ \E ok \in BOOLEAN :
          IF ok
          THEN peer' = [peer EXCEPT ![p].pc = "append",
                                    ![p].max_seq = MaxSeq(rows, peer[p].domain)]
          ELSE peer' = [peer EXCEPT ![p] = NoPeer]
    /\ UNCHANGED <<ledgerVars, machineVars, overlapped>>

\* PeerReserveAppend with the maximum read again at the append, as an
\* append under a lock would.
PeerReserveAppendLocked(p) ==
    /\ peer[p].pc = "append"
    /\ \E ok \in BOOLEAN :
          IF ok
          THEN LET next_seq == NextSeq(MaxSeq(rows, peer[p].domain))
                   slug == slugify_user(peer[p].assigned_user)
               IN  /\ rows' = Append(rows,
                                NewRow(peer[p].domain, next_seq,
                                       build_hostname(next_seq, slug), slug,
                                       Timestamp(clock)))
                   /\ reads' = Append(reads, peer[p].max_seq)
                   /\ clock' = clock + 1
                   /\ peer' = [peer EXCEPT ![p].pc = "joining",
                                           ![p].sheet_range =
                                               RowRange(Worksheet,
                                                   ReservedRowNumber(
                                                       RowRange(Worksheet, Len(rows) + 2)))]
          ELSE /\ peer' = [peer EXCEPT ![p] = NoPeer]
               /\ UNCHANGED <<rows, clock, reads>>
    /\ UNCHANGED <<header, machineVars, overlapped>>

\* reserve_name in the peer: ws.append_row(row) and the row reference made
\* of the range the append reports; the peer keeps the reference for its
\* post-login.
PeerReserveAppend(p) ==
    /\ peer[p].pc = "append"
    /\ \E ok \in BOOLEAN :
          IF ok
          THEN LET next_seq == NextSeq(peer[p].max_seq)
                   slug == slugify_user(peer[p].assigned_user)
               IN  /\ rows' = Append(rows,
                                NewRow(peer[p].domain, next_seq,
                                       build_hostname(next_seq, slug), slug,
                                       Timestamp(clock)))
                   /\ reads' = Append(reads, peer[p].max_seq)
                   /\ clock' = clock + 1
                   /\ peer' = [peer EXCEPT ![p].pc = "joining",
                                           ![p].sheet_range =
                                               RowRange(Worksheet,
                                                   ReservedRowNumber(
                                                       RowRange(Worksheet, Len(rows) + 2)))]
          ELSE /\ peer' = [peer EXCEPT ![p] = NoPeer]
               /\ UNCHANGED <<rows, clock, reads>>
    /\ UNCHANGED <<header, machineVars, overlapped>>

\* update_status in the peer's post-login, on the row reference its
\* reserve_name returned; a peer whose workflow fails on the way gives up.
PeerUpdateStatus(p) ==
    /\ peer[p].pc = "joining"
    /\ \E ok \in BOOLEAN :
          IF ok
          THEN /\ header' = EnsureHeader(header)
               /\ rows' = UpdateCells(rows, IntOf(StatusRowDigits(peer[p].sheet_range)),
                                      "Joined", Timestamp(clock),
                                      "Provisioned via computer-setup")
               /\ clock' = clock + 1
               /\ UNCHANGED reads
          ELSE UNCHANGED <<header, rows, clock, reads>>
    /\ peer' = [peer EXCEPT ![p] = NoPeer]
    /\ UNCHANGED <<machineVars, overlapped>>

Peer(p) ==
    \/ PeerReserveStart(p)
    \/ PeerReserveOpen(p)
    \/ PeerReserveRead(p)
    \/ PeerReserveAppend(p)
    \/ PeerUpdateStatus(p)

\* ------------------------------------------------------------- environment

\* The running command is killed (or the machine loses power).
Kill(m) ==
    /\ pc[m] # "none"
    /\ pc' = [pc EXCEPT ![m] = "none"]
    /\ error' = [error EXCEPT ![m] = "killed"]
    /\ loc' = [loc EXCEPT ![m] = NoLoc]
    /\ UNCHANGED <<ledgerVars, args, stateFile, mach, exitStatus, executed,
                   failedAt, effects, hist, overlapped, peer>>

\* ----------------------------------------------------------- specification

\* _initial_run up to the return of reserve_name.
InitialRunClaim(m) ==
    \/ IrRequireElevated(m)
    \/ IrResolveConfig(m)
    \/ IrGetDomain(m)
    \/ IrCredentialsPath(m)
    \/ IrSheetsClient(m)
    \/ IrReserveOpen(m)
    \/ IrReserveRead(m)
    \/ IrReserveAppend(m)

\* _initial_run from the prompts on.
InitialRunApply(m) ==
    \/ IrPrompt(m)
    \/ IrRenameComputer(m)
    \/ IrCreateLocalAdmin(m)
    \/ IrConfigureAutologon(m)
    \/ IrProtect(m)
    \/ IrSaveOpen(m)
    \/ IrSaveDump(m)
    \/ IrRegisterRunOnce(m)
    \/ IrLogoff(m)

PostLogin(m) ==
    \/ PlRequireElevated(m)
    \/ PlLoadState(m)
    \/ PlResolveConfig(m)
    \/ PlGetDomain(m)
    \/ PlCredentialsPath(m)
    \/ PlSheetsClient(m)
    \/ PlUnprotect(m)
    \/ PlClearAutologon(m)
    \/ PlRemoveLocalUser(m)
    \/ PlJoinDomain(m)
    \/ PlUpdateOpen(m)
    \/ PlUpdateStatus(m)
    \/ PlClearState(m)
    \/ PlRestart(m)

Machine(m) ==
    \/ InitialRunStart(m)
    \/ InitialRunClaim(m)
    \/ InitialRunApply(m)
    \/ PostLoginContinuation(m)
    \/ PostLoginManual(m)
    \/ PostLogin(m)

\* The workflow of one workstation, alone on the ledger.
Next ==
    \E m \in Machines : Machine(m) \/ Kill(m)

Spec == Init /\ [][Next]_vars

\* The reservations: initial-run on the workstation, up to the return of
\* reserve_name, while peers reserve names in the same ledger.
LedgerNext ==
    \/ \E m \in Machines : InitialRunStart(m) \/ InitialRunClaim(m)
    \/ \E p \in Peers : Peer(p)

LedgerSpec == Init /\ [][LedgerNext]_vars

\* The workflow of the workstation, both phases, while peers reserve names
\* and finalize their rows in the same ledger: initial-run has just been
\* started for domain "a" by an elevated caller, and the automatic logon
\* resumes with post-login.
ConcurrentInit ==
    /\ header = HEADERS
    /\ rows = <<>>
    /\ clock = 0
    /\ reads = <<>>
    /\ pc = [m \in Machines |-> "ir_require_elevated"]
    /\ args = [m \in Machines |->
                 [cmd |-> "initial-run", elevated |-> TRUE, domain |-> <<"a">>,
                  assigned_user |-> <<"T", " ", "w">>, initial_user |-> <<"t">>,
                  local_admin |-> <<"w">>, no_restart |-> FALSE]]
    /\ loc = [m \in Machines |-> NoLoc]
    /\ stateFile = [m \in Machines |-> NoFile]
    /\ mach = [m \in Machines |-> FreshMachine]
    /\ exitStatus = [m \in Machines |-> -1]
    /\ error = [m \in Machines |-> "none"]
    /\ executed = [m \in Machines |-> <<>>]
    /\ failedAt = [m \in Machines |-> "none"]
    /\ effects = [m \in Machines |-> {}]
    /\ hist = [m \in Machines |-> [NoHist EXCEPT !.initialRuns = 1]]
    /\ overlapped = FALSE
    /\ peer = [p \in Peers |-> NoPeer]

ConcurrentNext ==
    \/ \E m \in Machines :
          \/ InitialRunClaim(m)
          \/ InitialRunApply(m)
          \/ PostLoginContinuation(m)
          \/ PostLogin(m)
    \/ \E p \in Peers : Peer(p)

ConcurrentSpec == ConcurrentInit /\ [][ConcurrentNext]_vars

\* A resumption against whatever document the state location holds.  The
\* workstation is as a completed initial-run for domain "a" leaves it,
\* logged off with the continuation armed; the state location holds the
\* document initial-run wrote, or another one (edited, written by another
\* version, cut short, or none).
ReservedRow ==
    NewRow(<<"a">>, 1, build_hostname(1, <<"t", "-", "w">>), <<"t", "-", "w">>,
           Timestamp(0))

SavedDoc ==
    SetupStateDoc(<<"a">>, <<"t", "-", "w">>, ReservedRow.Hostname, <<"t">>, <<"w">>,
                  RowRange(Worksheet, 2),
                  [local_admin_password |-> protect_string("m1", <<"p">>),
                   domain_username |-> <<"a", "\\", "t">>,
                   domain_password |-> protect_string("m1", <<"q">>)])

Without(d, k) == [x \in DOMAIN d \ {k} |-> d[x]]

StateFiles ==
    { NoFile, PartialFile,
      JsonFile(SavedDoc),
      JsonFile(Without(SavedDoc, "version")),
      JsonFile(Without(SavedDoc, "domain")),
      JsonFile(Without(SavedDoc, "secrets")),
      JsonFile([SavedDoc EXCEPT !.secrets = Without(@, "domain_password")]),
      JsonFile([SavedDoc EXCEPT !.sheet_range = Worksheet \o <<"!", "A", ":", "G">>]),
      JsonFile([SavedDoc EXCEPT !.sheet_range = RowRange(Worksheet, 0)]),
      JsonFile([SavedDoc EXCEPT !.sheet_range = RowRange(Worksheet, 1)]),
      JsonFile([SavedDoc EXCEPT !.sheet_range = RowRange(Worksheet, 3)]),
      JsonFile([SavedDoc EXCEPT !.initial_user = <<"W">>]) }

LoadInitWith(ledgers, files) ==
    /\ header = HEADERS
    /\ rows \in ledgers
    /\ clock = 1
    /\ reads = [i \in 1..Len(rows) |-> 0]
    /\ pc = [m \in Machines |-> "none"]
    /\ args = [m \in Machines |-> NoArgs]
    /\ loc = [m \in Machines |-> NoLoc]
    /\ stateFile \in [Machines -> files]
    /\ mach = [m \in Machines |->
                 [FreshMachine EXCEPT !.hostname = ReservedRow.Hostname,
                                      !.adminPassword = <<"p">>,
                                      !.AutoAdminLogon = "1",
                                      !.DefaultUserName = <<"w">>,
                                      !.DefaultPassword = <<"p">>,
                                      !.RunOnce = TRUE,
                                      !.loggedOff = TRUE]]
    /\ exitStatus = [m \in Machines |-> -1]
    /\ error = [m \in Machines |-> "none"]
    /\ executed = [m \in Machines |-> <<>>]
    /\ failedAt = [m \in Machines |-> "none"]
    /\ effects = [m \in Machines |-> {}]
    /\ hist = [m \in Machines |-> [NoHist EXCEPT !.initialRuns = 1]]
    /\ overlapped = FALSE
    /\ peer = [p \in Peers |-> NoPeer]

LoadInit == LoadInitWith({<<ReservedRow>>}, StateFiles)

LoadNext ==
    \E m \in Machines :
       \/ PostLoginContinuation(m)
       \/ PostLoginManual(m)
       \/ PostLogin(m)

LoadSpec == LoadInit /\ [][LoadNext]_vars

\* A worksheet that was in use, or edited by hand, before the call: its row 1
\* and its data rows.
PriorHeaders ==
    { HEADERS, <<>>,
      <<"domain", "Sequence", "Hostname", "AssignedUser", "Status", "Timestamp", "Notes">>,
      HEADERS \o <<"Owner">> }

PriorRow(domain, cell) ==
    [Domain |-> domain, Sequence |-> cell, Hostname |-> <<"h">>,
     AssignedUser |-> <<"u">>, Status |-> "Pending", Timestamp |-> <<"0">>, Notes |-> ""]

PriorRows ==
    { PriorRow(<<" ", "A">>, IntCell(2)),
      PriorRow(<<"a">>, IntCell(-1)),
      PriorRow(<<"a">>, TextCell(<<"x">>)),
      PriorRow(<<"a">>, TextCell(<<>>)),
      PriorRow(<<"a">>, FloatCell(3)),
      PriorRow(<<"b">>, IntCell(5)) }

PriorLedgers == {<<>>} \cup {<<r>> : r \in PriorRows} \cup {<<r, q>> : r, q \in PriorRows}

\* post-login on a ledger of several rows, with a state document that refers
\* to the header row, to any of the rows, or to the sheet row below the last.
FinalizeLedgers ==
    { <<ReservedRow>>,
      <<ReservedRow, PriorRow(<<"b">>, IntCell(5))>>,
      <<PriorRow(<<"b">>, IntCell(5)), ReservedRow, PriorRow(<<"a">>, TextCell(<<"x">>))>> }

FinalizeFiles ==
    {JsonFile([SavedDoc EXCEPT !.sheet_range = RowRange(Worksheet, n)]) : n \in 1..4}

FinalizeInit == LoadInitWith(FinalizeLedgers, FinalizeFiles)

FinalizeSpec == FinalizeInit /\ [][LoadNext]_vars

\* The state store used by itself: save_state, load_state and clear_state
\* called one after another on a state location that holds any of StateFiles.
\* executed records the calls, failedAt and error the outcome of the last.
StoreInit ==
    /\ header = HEADERS
    /\ rows = <<>>
    /\ clock = 0
    /\ reads = <<>>
    /\ pc = [m \in Machines |-> "none"]
    /\ args = [m \in Machines |-> NoArgs]
    /\ loc = [m \in Machines |-> NoLoc]
    /\ stateFile \in [Machines -> StateFiles]
    /\ mach = [m \in Machines |-> FreshMachine]
    /\ exitStatus = [m \in Machines |-> -1]
    /\ error = [m \in Machines |-> "none"]
    /\ executed = [m \in Machines |-> <<>>]
    /\ failedAt = [m \in Machines |-> "none"]
    /\ effects = [m \in Machines |-> {}]
    /\ hist = [m \in Machines |-> NoHist]
    /\ overlapped = FALSE
    /\ peer = [p \in Peers |-> NoPeer]

\* The call `step` of the store returned (raised = "none") or raised.
StoreCall(m, step, raised) ==
    /\ executed' = [executed EXCEPT ![m] = Append(@, step)]
    /\ failedAt' = [failedAt EXCEPT ![m] = IF raised = "none" THEN "none" ELSE step]
    /\ error' = [error EXCEPT ![m] = raised]
    /\ UNCHANGED <<ledgerVars, pc, args, mach, exitStatus, effects, hist, overlapped, peer>>

\* clear_state(path)
StoreClear(m) ==
    /\ Len(executed[m]) < MaxStoreCalls
    /\ \E unlinked \in BOOLEAN :
          IF ClearStateOk(stateFile[m], unlinked)
          THEN /\ stateFile' = [stateFile EXCEPT ![m] = ClearedFile(@)]
               /\ StoreCall(m, "clear_state", "none")
          ELSE /\ StoreCall(m, "clear_state", "OSError")
               /\ UNCHANGED stateFile
    /\ UNCHANGED loc

\* load_state(path)
StoreLoad(m) ==
    /\ Len(executed[m]) < MaxStoreCalls
    /\ \E ok \in BOOLEAN :
          IF ok /\ LoadOk(stateFile[m])
          THEN /\ loc' = [loc EXCEPT ![m].state = from_json(stateFile[m].data)]
               /\ StoreCall(m, "load_state", "none")
          ELSE /\ StoreCall(m, "load_state", LoadError(stateFile[m]))
               /\ UNCHANGED loc
    /\ UNCHANGED stateFile

\* save_state(state, path): open("w") empties the file, json.dump fills it.
StoreSave(m) ==
    /\ Len(executed[m]) < MaxStoreCalls
    /\ \E ok \in BOOLEAN :
          IF ok
          THEN /\ stateFile' = [stateFile EXCEPT ![m] = JsonFile(SavedDoc)]
               /\ StoreCall(m, "save_state", "none")
          ELSE /\ stateFile' = [stateFile EXCEPT ![m] = PartialFile]
               /\ StoreCall(m, "save_state", "OSError")
    /\ UNCHANGED loc

StoreNext == \E m \in Machines : StoreClear(m) \/ StoreLoad(m) \/ StoreSave(m)

StoreSpec == StoreInit /\ [][StoreNext]_vars

\* initial-run, up to the return of reserve_name, against a worksheet that
\* was in use before.
SheetInit ==
    /\ header \in PriorHeaders
    /\ rows \in PriorLedgers
    /\ clock = 0
    /\ reads = [i \in 1..Len(rows) |-> 0]
    /\ pc = [m \in Machines |-> "none"]
    /\ args = [m \in Machines |-> NoArgs]
    /\ loc = [m \in Machines |-> NoLoc]
    /\ stateFile = [m \in Machines |-> NoFile]
    /\ mach = [m \in Machines |-> FreshMachine]
    /\ exitStatus = [m \in Machines |-> -1]
    /\ error = [m \in Machines |-> "none"]
    /\ executed = [m \in Machines |-> <<>>]
    /\ failedAt = [m \in Machines |-> "none"]
    /\ effects = [m \in Machines |-> {}]
    /\ hist = [m \in Machines |-> NoHist]
    /\ overlapped = FALSE
    /\ peer = [p \in Peers |-> NoPeer]

SheetNext == \E m \in Machines : InitialRunStart(m) \/ InitialRunClaim(m)

SheetSpec == SheetInit /\ [][SheetNext]_vars

\* ------------------------------------------------------------------ claims

Range(q) == {q[i] : i \in 1..Len(q)}

\* The step was executed by the running (or last) command and did not raise.
Succeeded(m, step) == step \in Range(executed[m]) /\ failedAt[m] # step

\* The command ended by itself: it returned or it raised (it was not killed).
Exited(m) == pc[m] = "none" /\ exitStatus[m] # -1

\* A domain as the configuration identifies it: its key, case ignored.
DomainKey(d) == Lower(Strip(d))

IsKeyRow(row, key) == DomainKey(row.Domain) = key

RowsOf(key) == SelectSeq(rows, LAMBDA row : IsKeyRow(row, key))

\* C1 (sequence monotonicity): as long as no reserve_name call began while
\* another was in progress, the rows of each domain carry, in the order they
\* were appended, the sequence numbers 1, 2, ..., N with no gap and no
\* repeat, and the number a call returned is the one in the row it appended.
C1_SequenceMonotonic ==
    ~overlapped =>
        /\ \A d \in DomainArgs :
              \A i \in 1..Len(RowsOf(DomainKey(d))) :
                 RowsOf(DomainKey(d))[i].Sequence = IntCell(i)
        /\ \A m \in Machines :
              loc[m].seq # 0 =>
                 LET n == IntOf(StatusRowDigits(loc[m].sheet_range)) - 1
                 IN  /\ n \in 1..Len(rows)
                     /\ rows[n].Sequence = IntCell(loc[m].seq)
                     /\ IsKeyRow(rows[n], DomainKey(args[m].domain))

\* Three reservations of one domain, written "a" and "A", one after another.
C1_Witness ==
    /\ ~overlapped
    /\ Len(RowsOf(<<"a">>)) >= 3
    /\ \E i, j \in 1..Len(rows) : rows[i].Domain = <<"a">> /\ rows[j].Domain = <<"A">>

\* C2 (race exposure): two rows of one domain whose reserve_name calls had
\* read the same maximum carry the same sequence number: nothing between the
\* read and the append detects the other call.
C2_RaceExposure ==
    \A i, j \in 1..Len(rows) :
       (/\ i < j
        /\ DomainKey(rows[i].Domain) = DomainKey(rows[j].Domain)
        /\ reads[i] = reads[j])
       => rows[i].Sequence = rows[j].Sequence

\* Two calls overlapped, both read the same maximum, and the ledger holds two
\* rows with one (domain, sequence) pair.
C2_Witness ==
    /\ overlapped
    /\ \E i, j \in 1..Len(rows) :
          /\ i < j
          /\ DomainKey(rows[i].Domain) = DomainKey(rows[j].Domain)
          /\ reads[i] = reads[j]
          /\ rows[i].Sequence = rows[j].Sequence

\* C3 (phase 2 clears the state unconditionally): a post-login that loaded
\* the state and then ended, by returning or by raising, leaves no state file.
C3_StateClearedAtExit ==
    \A m \in Machines :
       (args[m].cmd = "post-login" /\ Exited(m) /\ Succeeded(m, "load_state"))
       => stateFile[m] = NoFile

\* C4 (no double enrollment): after one initial-run, the domain join succeeds
\* in at most one post-login.
C4_NoDoubleJoin ==
    \A m \in Machines : hist[m].joins <= 1

\* C5 (phase 2 after clear): a post-login, run elevated, that begins after a
\* post-login completed with --no-restart (and nothing wrote the state
\* location since) raises at load_state with the error of a missing state
\* file, exits nonzero and has no external effect; run without elevation it
\* has none either and exits nonzero.
C5_SecondRunFailsAtLoad ==
    \A m \in Machines :
       (args[m].cmd = "post-login" /\ hist[m].afterClear)
       => /\ effects[m] = {}
          /\ pc[m] \in {"none", "pl_require_elevated", "pl_load_state"}
          /\ Exited(m) =>
                /\ exitStatus[m] = 1
                /\ args[m].elevated =>
                      failedAt[m] = "load_state" /\ error[m] = "FileNotFoundError"

\* The second post-login has raised at load_state.
C5_Witness ==
    \E m \in Machines :
       /\ args[m].cmd = "post-login" /\ hist[m].afterClear
       /\ Exited(m) /\ failedAt[m] = "load_state" /\ exitStatus[m] = 1
       /\ mach[m].domain # <<>>

\* C6 (auto-logon disabled first): in post-login nothing is executed between
\* load_state and clear_autologon.
C6_AutologonClearedFirst ==
    \A m \in Machines :
       (args[m].cmd = "post-login" /\ Len(executed[m]) >= 3)
       => executed[m][3] = "clear_autologon"

\* C7 (a phase 1 that ends before the state is persisted leaves no trace):
\* an initial-run that raised or was killed before it had written the state
\* document has appended no ledger row and changed nothing on the workstation.
C7_NoTraceBeforeState ==
    \A m \in Machines :
       (/\ args[m].cmd = "initial-run"
        /\ pc[m] = "none"
        /\ ~Succeeded(m, "save_state.dump"))
       => /\ effects[m] \subseteq {"save_state"}
          /\ rows = <<>>
          /\ mach[m] = FreshMachine

\* The row reference of a document, as update_status reads it.
RowReferenceOk(sheet_range) ==
    IntOk(StatusRowDigits(sheet_range)) /\ IntOf(StatusRowDigits(sheet_range)) >= 1

\* A state document as the data model defines a valid one.
ValidDocument(data) ==
    /\ HasKey(data, "version")
    /\ \A k \in StateKeys : HasKey(data, k)
    /\ HasKey(data, "secrets")
    /\ \A k \in SecretKeys : HasKey(data.secrets, k)
    /\ RowReferenceOk(data.sheet_range)

ValidStateFile(file) == file.kind = "json" /\ ValidDocument(file.data)

\* C8 (state validity at load): while the state location holds anything but
\* a valid document, post-login does not get past load_state and has no
\* effect on the workstation or the ledger.
C8_LoadValidates ==
    \A m \in Machines :
       (/\ args[m].cmd = "post-login"
        /\ "clear_state" \notin effects[m]
        /\ ~ValidStateFile(stateFile[m]))
       => ~Succeeded(m, "load_state") /\ effects[m] = {}

\* The steps of the two handlers, in the order of the code.
InitialRunSteps ==
    <<"require_elevated", "resolve_config", "get_domain", "resolve_credentials_path",
      "SheetsClient", "reserve_name.open", "reserve_name.read", "reserve_name.append",
      "prompt", "rename_computer", "create_or_update_local_admin",
      "configure_autologon", "protect_string", "save_state.open", "save_state.dump",
      "register_run_once", "logoff_current_user">>

PostLoginSteps ==
    <<"require_elevated", "load_state", "resolve_config", "get_domain",
      "resolve_credentials_path", "SheetsClient", "unprotect_string",
      "clear_autologon", "remove_local_user", "join_domain", "update_status.open",
      "update_status", "clear_state", "restart_computer">>

StepsOf(cmd) == IF cmd = "initial-run" THEN InitialRunSteps ELSE PostLoginSteps

IndexIn(q, x) == CHOOSE i \in 1..Len(q) : q[i] = x

\* Every step executed is a step of the command, and they come in the order
\* of the code, none twice.
InOrder(m) ==
    /\ \A i \in 1..Len(executed[m]) : executed[m][i] \in Range(StepsOf(args[m].cmd))
    /\ \A i, j \in 1..Len(executed[m]) :
          i < j => IndexIn(StepsOf(args[m].cmd), executed[m][i])
                      < IndexIn(StepsOf(args[m].cmd), executed[m][j])

\* C9 (failure semantics): the step that raised is the last one the command
\* executed, the command has ended with an error reported and exit status 1;
\* a command that exits with status 0 had no step raise; and the steps run in
\* the order of the code, none of them a second time.
C9_FailureAborts ==
    \A m \in Machines :
       /\ failedAt[m] # "none" =>
             /\ pc[m] = "none"
             /\ executed[m][Len(executed[m])] = failedAt[m]
             /\ error[m] # "none"
             /\ exitStatus[m] = 1
       /\ exitStatus[m] = 0 => failedAt[m] = "none" /\ error[m] = "none"
       /\ InOrder(m)

\* A post-login whose domain join raised, after the earlier steps took effect.
C9_Witness ==
    \E m \in Machines :
       /\ failedAt[m] = "join_domain" /\ exitStatus[m] = 1
       /\ "clear_autologon" \in effects[m]
       /\ "update_status" \notin effects[m]

\* The largest sequence number among the first n rows that belong to the
\* domain `key`, 0 when there is none.
OwnMax(n, key) ==
    LET own == {CellInt(rows[x].Sequence) :
                   x \in {y \in 1..n : IsKeyRow(rows[y], key) /\ CellIntOk(rows[y].Sequence)}}
    IN  IF own = {} THEN 0 ELSE CHOOSE v \in own : \A w \in own : w <= v

\* C10 (sequence domain isolation): the next sequence number of a domain is
\* one more than the largest number among the rows of that domain, whatever
\* the rows of other domains hold; and the number every row got is one more
\* than the largest among the rows of its own domain that preceded its read.
C10_DomainIsolation ==
    /\ \A d \in DomainArgs :
          NextSeq(MaxSeq(rows, d)) = OwnMax(Len(rows), DomainKey(d)) + 1
    /\ \A i \in 1..Len(rows) :
          \E n \in 0..(i - 1) :
             /\ reads[i] = OwnMax(n, DomainKey(rows[i].Domain))
             /\ rows[i].Sequence = IntCell(reads[i] + 1)

\* Rows of "b", "a", "b" in this order: the second reservation of "b" got 2
\* although a row of "a" came in between.
C10_Witness ==
    /\ Len(rows) = 3
    /\ IsKeyRow(rows[1], <<"b">>) /\ IsKeyRow(rows[2], <<"a">>) /\ IsKeyRow(rows[3], <<"b">>)
    /\ rows[3].Sequence = IntCell(2)
    /\ rows[2].Sequence = IntCell(1)

\* The row the running initial-run appended: its index among the data rows.
OwnRowIndex(m) == IntOf(StatusRowDigits(loc[m].sheet_range)) - 1

\* The largest valid sequence (an integer, not negative) among the first n
\* rows that belong to the domain `key`, 0 when there is none.
ValidMax(n, key) ==
    LET own == {rows[x].Sequence.n :
                   x \in {y \in 1..n : /\ IsKeyRow(rows[y], key)
                                       /\ rows[y].Sequence.kind = "int"
                                       /\ rows[y].Sequence.n >= 0}}
    IN  IF own = {} THEN 0 ELSE CHOOSE v \in own : \A w \in own : w <= v

\* C11 (next = max + 1, malformed rows skipped): the sequence reserve_name
\* returned is one more than the largest valid nonnegative integer sequence
\* among the rows of the domain that were there before, rows with any other
\* sequence field counting for nothing, and the row it appended carries
\* status Pending, that sequence and the hostname built from it.
C11_NextIsMaxPlusOne ==
    \A m \in Machines :
       loc[m].seq # 0 =>
          /\ loc[m].seq = ValidMax(OwnRowIndex(m) - 1, DomainKey(args[m].domain)) + 1
          /\ rows[OwnRowIndex(m)].Status = "Pending"
          /\ rows[OwnRowIndex(m)].Sequence = IntCell(loc[m].seq)
          /\ rows[OwnRowIndex(m)].Hostname =
                build_hostname(loc[m].seq, slugify_user(args[m].assigned_user))
          /\ loc[m].hostname = rows[OwnRowIndex(m)].Hostname

\* C13 (header self-heal): once a reserve_name call has opened the tab, and
\* so before it reads the records or appends, row 1 is the seven canonical
\* headers and nothing else.
C13_HeaderHealed ==
    \A m \in Machines :
       (args[m].cmd = "initial-run" /\ Succeeded(m, "reserve_name.open"))
       => header = HEADERS

Last(q) == q[Len(q)]

\* The call just made by machine m is `step`.
JustCalled(m, step) == executed'[m] # executed[m] /\ Last(executed'[m]) = step

\* C12 (state clearing is idempotent): clear_state on a location without a
\* state file does not raise and leaves it without one, so a second
\* clear_state changes nothing; a clear_state that returned left no file; and
\* a load_state that follows a clear_state raises the error of a missing file.
C12_ClearIdempotent ==
    [][\A m \in Machines :
          /\ JustCalled(m, "clear_state") =>
                /\ stateFile[m] = NoFile =>
                      failedAt'[m] = "none" /\ stateFile'[m] = NoFile
                /\ failedAt'[m] = "none" => stateFile'[m] = NoFile
          /\ (/\ JustCalled(m, "load_state")
              /\ executed[m] # <<>>
              /\ Last(executed[m]) = "clear_state"
              /\ failedAt[m] = "none")
             => failedAt'[m] = "load_state" /\ error'[m] = "FileNotFoundError"]_vars

\* clear_state twice, then load_state, which raised.
C12_Witness ==
    \E m \in Machines :
       /\ executed[m] = <<"clear_state", "clear_state", "load_state">>
       /\ failedAt[m] = "load_state"
       /\ stateFile[m] = NoFile

\* C14 (privilege precondition): a command started without elevation executes
\* nothing but require_elevated and has no effect; when it has ended it has
\* raised there with the privilege error and exit status 1.
C14_PrivilegeFailFast ==
    \A m \in Machines :
       (args[m].cmd # "none" /\ ~args[m].elevated) =>
          /\ effects[m] = {}
          /\ executed[m] \in {<<>>, <<"require_elevated">>}
          /\ pc[m] \in {"none", "ir_require_elevated", "pl_require_elevated"}
          /\ Exited(m) =>
                /\ failedAt[m] = "require_elevated"
                /\ error[m] = "PermissionError"
                /\ exitStatus[m] = 1

\* A post-login without elevation that has raised, the state file, the
\* automatic logon and the Pending row of the initial-run all still there.
C14_Witness ==
    \E m \in Machines :
       /\ args[m].cmd = "post-login" /\ ~args[m].elevated
       /\ Exited(m) /\ failedAt[m] = "require_elevated"
       /\ stateFile[m].kind = "json"
       /\ mach[m].AutoAdminLogon = "1"
       /\ Len(rows) = 1 /\ rows[1].Status = "Pending"

\* The state file holds a document with the hostname and the row reference
\* of the last row of the ledger, the one the initial-run reserved.
HoldsReservation(m) ==
    /\ stateFile[m].kind = "json"
    /\ HasKey(stateFile[m].data, "sheet_range")
    /\ HasKey(stateFile[m].data, "computer_name")
    /\ rows # <<>>
    /\ stateFile[m].data.sheet_range = RowRange(Worksheet, Len(rows) + 1)
    /\ stateFile[m].data.computer_name = rows[Len(rows)].Hostname

\* register_run_once comes after save_state, logoff after register_run_once.
SuspensionOrder(m) ==
    /\ "register_run_once" \in Range(executed[m]) => Succeeded(m, "save_state.dump")
    /\ "logoff_current_user" \in Range(executed[m]) => Succeeded(m, "register_run_once")

\* C15 as stated (ordering of the suspension): within initial-run the
\* continuation is armed after the state is persisted and the logoff comes
\* after the arming; and in every state in which the continuation is armed
\* the state file exists and holds this reservation.
C15_ArmedHasState ==
    \A m \in Machines :
       /\ args[m].cmd = "initial-run" => SuspensionOrder(m)
       /\ mach[m].RunOnce => HoldsReservation(m)

\* C15 as amended: the same ordering; and from the arming of the
\* continuation until another command is started on the workstation, the
\* continuation is armed and the state file holds this reservation.
C15_SuspensionOrdered ==
    \A m \in Machines :
       args[m].cmd = "initial-run" =>
          /\ SuspensionOrder(m)
          /\ Succeeded(m, "register_run_once") =>
                mach[m].RunOnce /\ HoldsReservation(m)

\* initial-run returned after the logoff, the continuation armed.
C15_Witness ==
    \E m \in Machines :
       /\ args[m].cmd = "initial-run" /\ Exited(m) /\ exitStatus[m] = 0
       /\ Succeeded(m, "logoff_current_user")
       /\ mach[m].RunOnce /\ mach[m].loggedOff

\* The data row a loaded state document refers to.
StateRowIndex(m) == IntOf(StatusRowDigits(loc[m].state.sheet_range)) - 1

\* C16 (ledger status follows enrollment): every row is Pending or Joined and
\* a Joined row means the workstation has joined a domain; post-login updates
\* the ledger only after its domain join succeeded; a row is appended as
\* Pending; and the only change of status is from Pending to Joined, made by
\* update_status of a post-login whose join succeeded, on the row of the
\* hostname in its state document.
C16_StatusFollowsJoin ==
    /\ [](\A m \in Machines :
            /\ \A i \in 1..Len(rows) :
                  /\ rows[i].Status \in {"Pending", "Joined"}
                  /\ rows[i].Status = "Joined" => mach[m].domain # <<>>
            /\ (args[m].cmd = "post-login" /\ "update_status" \in effects[m])
               => Succeeded(m, "join_domain"))
    /\ [][/\ Len(rows') >= Len(rows)
          /\ \A i \in (Len(rows) + 1)..Len(rows') : rows'[i].Status = "Pending"
          /\ \A i \in 1..Len(rows) :
                rows'[i].Status # rows[i].Status =>
                   /\ rows[i].Status = "Pending" /\ rows'[i].Status = "Joined"
                   /\ \E m \in Machines :
                         /\ pc[m] = "pl_update_status"
                         /\ Succeeded(m, "join_domain")
                         /\ i = StateRowIndex(m)
                         /\ rows[i].Hostname = loc[m].state.computer_name]_vars

\* The row is Joined and the workstation is in the domain of the row.
C16_Witness ==
    \E m \in Machines :
       /\ Len(rows) = 1 /\ rows[1].Status = "Joined"
       /\ mach[m].domain = rows[1].Domain
       /\ mach[m].hostname = rows[1].Hostname

\* C17 (restart timing): in post-login a restart is issued only by the
\* restart step, without --no-restart, after every earlier step succeeded,
\* with the state file cleared and the ledger row Joined; a post-login that
\* got past clear_state without --no-restart ends with the restart step; and
\* with --no-restart it exits 0, the state cleared, no restart issued.
C17_RestartTiming ==
    \A m \in Machines :
       args[m].cmd = "post-login" =>
          /\ "restart_computer" \in effects[m] =>
                /\ Succeeded(m, "restart_computer")
                /\ ~args[m].no_restart
                /\ failedAt[m] = "none"
                /\ \A step \in {"load_state", "clear_autologon", "join_domain",
                                "update_status", "clear_state"} : Succeeded(m, step)
                /\ {"join_domain", "update_status", "clear_state"} \subseteq effects[m]
                /\ stateFile[m] = NoFile
                /\ \E i \in 1..Len(rows) : rows[i].Status = "Joined"
          /\ (Exited(m) /\ Succeeded(m, "clear_state") /\ ~args[m].no_restart)
             => "restart_computer" \in Range(executed[m])
          /\ (Exited(m) /\ Succeeded(m, "clear_state") /\ args[m].no_restart)
             => /\ exitStatus[m] = 0
                /\ stateFile[m] = NoFile
                /\ "restart_computer" \notin Range(executed[m])
                /\ "restart_computer" \notin effects[m]

\* A post-login that issued the restart and returned.
C17_Witness ==
    \E m \in Machines :
       /\ args[m].cmd = "post-login" /\ Exited(m) /\ exitStatus[m] = 0
       /\ "restart_computer" \in effects[m]
       /\ mach[m].restartIssued
       /\ stateFile[m] = NoFile

\* Two account names are the same account: Windows ignores their case.
SameAccount(u, v) == Lower(u) = Lower(v)

\* The steps of post-login that follow the account removal.
AfterRemoval ==
    {"pl_join_domain", "pl_update_open", "pl_update_status", "pl_clear_state",
     "pl_restart"}

\* C18 (temporary account removal): a post-login that has got past the
\* removal step has removed the temporary account exactly when its name
\* differs from the administrator's, case ignored; no removed account is the
\* administrator's; and a removal comes after clear_autologon and before
\* join_domain.
C18_TemporaryAccountRemoval ==
    \A m \in Machines :
       (args[m].cmd = "post-login" /\ loc[m].state # <<>>) =>
          LET state == loc[m].state
              removed == "remove_local_user" \in effects[m]
          IN  /\ pc[m] \in AfterRemoval =>
                    (removed <=> ~SameAccount(state.initial_user, state.local_admin_user))
              /\ removed =>
                    /\ state.initial_user \in mach[m].removed
                    /\ "clear_autologon" \in effects[m]
                    /\ executed[m][Len(executed[m])] = "remove_local_user"
                          => "join_domain" \notin effects[m]
                    /\ "join_domain" \in Range(executed[m]) =>
                          IndexIn(executed[m], "remove_local_user")
                             < IndexIn(executed[m], "join_domain")
                    /\ IndexIn(executed[m], "clear_autologon")
                          < IndexIn(executed[m], "remove_local_user")
              /\ \A u \in mach[m].removed : ~SameAccount(u, state.local_admin_user)

\* The temporary account is "W", the administrator "w": post-login went on
\* to the domain join and removed no account.
C18_Witness ==
    \E m \in Machines :
       /\ args[m].cmd = "post-login" /\ loc[m].state # <<>>
       /\ loc[m].state.initial_user = <<"W">> /\ loc[m].state.local_admin_user = <<"w">>
       /\ "join_domain" \in effects[m]
       /\ mach[m].removed = {}

\* Row i of the data rows of a sheet, blank when nothing was written there.
GridRow(data, i) == IF i <= Len(data) THEN data[i] ELSE BlankRow

\* C19 (frame of update_status): the ws.update of update_status leaves the
\* domain, sequence, hostname and assigned user of the referenced row and
\* every field of every other data row as they were, and inserts or deletes
\* no row (a reference below the last row writes into that empty sheet row);
\* on a reference to row 1 it leaves every data row and the cells A1:D1 as
\* they were; and opening the tab changes no data row.
C19_UpdateStatusFrame ==
    [][\A m \in Machines :
          /\ (pc[m] = "pl_update_status" /\ pc'[m] = "pl_clear_state") =>
                /\ Len(rows') >= Len(rows)
                /\ \A i \in 1..Len(rows') :
                      IF i = StateRowIndex(m)
                      THEN /\ rows'[i].Domain = GridRow(rows, i).Domain
                           /\ rows'[i].Sequence = GridRow(rows, i).Sequence
                           /\ rows'[i].Hostname = GridRow(rows, i).Hostname
                           /\ rows'[i].AssignedUser = GridRow(rows, i).AssignedUser
                           /\ rows'[i].Status = "Joined"
                      ELSE rows'[i] = GridRow(rows, i)
                /\ StateRowIndex(m) >= 1 => header' = header
                /\ \A j \in 1..4 : header'[j] = header[j]
          /\ pc[m] = "pl_update_open" => rows' = rows]_vars

\* Of three rows the middle one was set to Joined, the other two are as
\* they were.
C19_Witness ==
    /\ Len(rows) = 3
    /\ rows[2] = [ReservedRow EXCEPT !.Status = "Joined", !.Timestamp = rows[2].Timestamp,
                                     !.Notes = rows[2].Notes]
    /\ rows[2].Notes # ""
    /\ rows[1] = PriorRow(<<"b">>, IntCell(5))
    /\ rows[3] = PriorRow(<<"a">>, TextCell(<<"x">>))

\* The passwords the prompts capture.
Plaintexts == AdminPasswords \cup DomainPasswords

\* The token is no plaintext password and holds no character of one.
NoPlaintext(token) ==
    /\ token \notin Plaintexts
    /\ \A i \in 1..Len(token) : \A pw \in Plaintexts : token[i] \notin Range(pw)

\* C20 (secrets at rest): in the state document the two password fields hold
\* protect_string of a captured password, never the password; the domain
\* user name is stored as entered; and join_domain is given the stored user
\* name and unprotect_string of the stored domain-password token.
C20_SecretsAtRest ==
    \A m \in Machines :
       /\ stateFile[m].kind = "json" =>
             LET secrets == stateFile[m].data.secrets
             IN  /\ NoPlaintext(secrets.local_admin_password)
                 /\ NoPlaintext(secrets.domain_password)
                 /\ \E lp \in AdminPasswords :
                       /\ secrets.local_admin_password = protect_string(m, lp)
                       /\ mach[m].adminPassword = lp
                 /\ \E dp \in DomainPasswords :
                       secrets.domain_password = protect_string(m, dp)
                 /\ secrets.domain_username \in DomainUsers
       /\ (args[m].cmd = "post-login" /\ "join_domain" \in effects[m] /\ loc[m].state # <<>>)
          => /\ mach[m].joinCredential =
                   <<loc[m].state.secrets.domain_username,
                     unprotect_string(m, loc[m].state.secrets.domain_password)>>
             /\ mach[m].joinCredential[2] \in DomainPasswords

\* The state document is still there after a domain join made with the
\* password it protects.
C20_Witness ==
    \E m \in Machines :
       /\ stateFile[m].kind = "json"
       /\ "join_domain" \in effects[m]
       /\ mach[m].joinCredential[2] = <<"q">>
       /\ stateFile[m].data.secrets.domain_password # <<"q">>

\* C21 (atomic replacement of the state file): at every point of a save, a
\* kill in the middle of it included, the state location holds no file or a
\* complete document, never an empty or partly written file.
C21_AtomicReplace ==
    \A m \in Machines : stateFile[m].kind \in {"absent", "json"}

\* C22 (own-row finalization under concurrent provisioning): the row
\* reference reserve_name returns designates the row that call appended, also
\* when a peer appended a row with the same sequence number in between; the
\* references of two reservations differ; the state file and the state
\* post-login loads hold the reference unchanged; and a row changes only in
\* update_status of the client that appended it, on the reference it holds.
C22_OwnRowFinalized ==
    /\ [](LET RowIndexOf(sheet_range) == IntOf(StatusRowDigits(sheet_range)) - 1
              Returned(m) == loc[m].sheet_range # <<>>
              Saved(m) == stateFile[m].kind = "json"
              Loaded(m) == loc[m].state # <<>>
              \* the references the workstation holds and the hostnames with them
              ReferencesOf(m) ==
                  {loc[m].sheet_range : x \in {y \in {1} : Returned(m)}}
                     \cup {stateFile[m].data.sheet_range : x \in {y \in {1} : Saved(m)}}
                     \cup {loc[m].state.sheet_range : x \in {y \in {1} : Loaded(m)}}
              HostnamesOf(m) ==
                  {loc[m].hostname : x \in {y \in {1} : Returned(m)}}
                     \cup {stateFile[m].data.computer_name : x \in {y \in {1} : Saved(m)}}
                     \cup {loc[m].state.computer_name : x \in {y \in {1} : Loaded(m)}}
          IN  \A m \in Machines :
                 /\ \A r \in ReferencesOf(m) :
                       /\ RowIndexOf(r) \in hist[m].appended
                       /\ RowIndexOf(r) \in 1..Len(rows)
                       /\ r = RowRange(Worksheet, RowIndexOf(r) + 1)
                       /\ rows[RowIndexOf(r)].Hostname \in HostnamesOf(m)
                 /\ Cardinality(ReferencesOf(m)) <= 1
                 /\ Cardinality(HostnamesOf(m)) <= 1
                 /\ \A p \in Peers :
                       peer[p].pc = "joining" =>
                          /\ RowIndexOf(peer[p].sheet_range) \in 1..Len(rows)
                          /\ RowIndexOf(peer[p].sheet_range) \notin hist[m].appended
                          /\ peer[p].sheet_range \notin ReferencesOf(m))
    /\ [][\A i \in 1..Len(rows) :
             rows'[i] # rows[i] =>
                /\ rows[i].Status = "Pending" /\ rows'[i].Status = "Joined"
                /\ IF peer' = peer
                   THEN \E m \in Machines :
                           /\ pc[m] = "pl_update_status"
                           /\ i = StateRowIndex(m)
                           /\ i \in hist[m].appended
                   ELSE \E p \in Peers :
                           /\ peer[p].pc = "joining"
                           /\ i = IntOf(StatusRowDigits(peer[p].sheet_range)) - 1
                           /\ \A m \in Machines : i \notin hist[m].appended]_vars

\* The workstation and a peer reserved the same hostname in an overlap, and
\* post-login set Joined on the workstation's row while the peer's row, of
\* the same sequence number, is still Pending.
C22_Witness ==
    \E m \in Machines : \E i \in hist[m].appended : \E j \in 1..Len(rows) :
       /\ j \notin hist[m].appended
       /\ rows[j].Domain = rows[i].Domain
       /\ rows[j].Sequence = rows[i].Sequence
       /\ rows[j].Hostname = rows[i].Hostname
       /\ rows[i].Status = "Joined" /\ rows[j].Status = "Pending"
       /\ args[m].cmd = "post-login" /\ "update_status" \in effects[m]

====
